---------------------------- MODULE Spec2Model ----------------------------
(***************************************************************************)
(* A model of O365/message.py: Recipient, Recipients, the cloud mapping    *)
(* mixin and Message with its remote operations.                           *)
(*                                                                         *)
(* Python values are tagged records.  A dict is a function whose DOMAIN is *)
(* the set of keys present.  None is the string "None" where the other     *)
(* values are strings, and NoneObj, the empty function, where they are     *)
(* dicts, lists or objects (TLC compares values of one kind only); the     *)
(* three-valued is_read is PyTrue, PyFalse or None.                        *)
(***************************************************************************)
EXTENDS Integers, Sequences, FiniteSets, TLC

VARIABLES
    recipients,   \* Recipients.recipients of the list under test
    rcall,        \* the last call on that list, as its caller observes it
    msg,          \* the Message under test
    call          \* the last call on that Message, as its caller observes it

vars == <<recipients, rcall, msg, call>>

None == "None"
NoneObj == <<>>
PyTrue == "True"
PyFalse == "False"

\* No call has been made, or its result has been consumed by the caller.
Idle == [op |-> "idle"]

\* dict.get(key, default)
Get(d, k, default) == IF k \in DOMAIN d THEN d[k] ELSE default

-----------------------------------------------------------------------------
(* Bounds *)

\* Size (number of nodes: leaves and lists) of an argument passed to add.
MaxNodes == 4
\* add is called on lists that hold at most this many recipients.
MaxExisting == 1

-----------------------------------------------------------------------------
(* Python values passed to Recipients.add *)

PyStr(s) == [t |-> "str", v |-> s]
PyRecipient(address, name) == [t |-> "Recipient", address |-> address, name |-> name]
\* a (name, address) pair
PyTuple(name, address) == [t |-> "tuple", name |-> name, address |-> address]
PyList(items) == [t |-> "list", items |-> items]
\* a value of any other type: None, 0, {} are falsy; 5, {"a": 1} are truthy
PyOther(truthy) == [t |-> "other", truthy |-> truthy]

Atoms ==
    { PyStr("a@x"), PyStr(""),
      PyRecipient("b@x", "B"), PyRecipient("", "N"),
      PyTuple("C", "c@x"), PyTuple("C", ""),
      PyOther(FALSE), PyOther(TRUE) }

RECURSIVE Values(_), Forests(_)
\* the values of exactly n nodes
Values(n) ==
    IF n = 1 THEN Atoms \cup {PyList(<<>>)}
    ELSE {PyList(f) : f \in Forests(n - 1)}
\* the non-empty sequences of values of k nodes in total
Forests(k) ==
    UNION { {<<v>> \o f : v \in Values(i), f \in (IF i = k THEN {<<>>} ELSE Forests(k - i))}
            : i \in 1..k }

Inputs == UNION {Values(n) : n \in 1..MaxNodes}

-----------------------------------------------------------------------------
(* Recipient *)

\* Recipient.__init__: address or '', name or ''
Recipient(address, name) ==
    [address |-> IF address = None THEN "" ELSE address,
     name |-> IF name = None THEN "" ELSE name]

\* mutant: Recipient without __bool__, every instance is truthy
RecipientBoolDefault(r) == TRUE

\* Recipient.__bool__
RecipientBool(r) == r.address # ""

\* bool(value) of a value passed to add
Truthy(x) ==
    CASE x.t = "str" -> x.v # ""
      [] x.t = "Recipient" -> RecipientBool(x)
      [] x.t = "tuple" -> TRUE
      [] x.t = "list" -> x.items # <<>>
      [] x.t = "other" -> x.truthy

-----------------------------------------------------------------------------
(* Recipients *)

\* A list with the outcome of the call that produced it.
Ok(rs) == [recipients |-> rs, raised |-> FALSE]
Raise(rs) == [recipients |-> rs, raised |-> TRUE]

\* add, str branch
AddStr(rs, x) == Ok(Append(rs, Recipient(x.v, None)))

\* add, Recipient branch: the instance itself is appended
AddRecipient(rs, x) == Ok(Append(rs, [address |-> x.address, name |-> x.name]))

\* mutant: the tuple branch without its address check
AddTupleUnchecked(rs, x) == Ok(Append(rs, Recipient(x.address, x.name)))

\* add, tuple branch
AddTuple(rs, x) ==
    IF x.address # "" THEN Ok(Append(rs, Recipient(x.address, x.name))) ELSE Ok(rs)

\* mutant: every other type is ignored
AddOtherIgnored(rs, x) == Ok(rs)

\* add, else branch
AddOther(rs, x) == Raise(rs)

RECURSIVE RecipientsAdd(_, _), AddEach(_, _, _)
\* Recipients.add
RecipientsAdd(rs, x) ==
    IF ~Truthy(x) THEN Ok(rs)
    ELSE CASE x.t = "str" -> AddStr(rs, x)
           [] x.t = "Recipient" -> AddRecipient(rs, x)
           [] x.t = "tuple" -> AddTuple(rs, x)
           [] x.t = "list" -> AddEach(rs, x.items, 1)
           [] OTHER -> AddOther(rs, x)
\* the loop of the list branch: an exception ends it, what was appended stays
AddEach(rs, items, i) ==
    IF i > Len(items) THEN Ok(rs)
    ELSE LET r == RecipientsAdd(rs, items[i])
         IN IF r.raised THEN r ELSE AddEach(r.recipients, items, i + 1)

\* Recipients.__init__
RecipientsInit(x) == IF Truthy(x) THEN RecipientsAdd(<<>>, x) ELSE Ok(<<>>)

\* Recipients.remove, with the addresses as a set
RecipientsRemove(rs, addresses) ==
    SelectSeq(rs, LAMBDA r : r.address \notin addresses)

\* Recipients.__contains__
RecipientsContains(rs, item) == item \in {rs[i].address : i \in 1..Len(rs)}

\* Recipients.get_first_recipient_with_address; None when there is none
GetFirstRecipientWithAddress(rs) ==
    LET with == SelectSeq(rs, LAMBDA r : r.address # "")
    IN IF with # <<>> THEN with[1] ELSE NoneObj

-----------------------------------------------------------------------------
(* HandleRecipientsMixin: wire recipients <-> Recipient *)

\* ApiComponent._cc under a camelCase protocol: the keys, written in
\* camelCase in message.py, are the wire keys
Cc(key) == key

\* mutant: the emailAddress envelope is not unwrapped
RecipientFromCloudFlatOnly(recipient) ==
    IF recipient # NoneObj
    THEN Recipient(Get(recipient, "address", ""), Get(recipient, "name", ""))
    ELSE Recipient(None, None)

\* _recipient_from_cloud; the argument is None or a dict (None and {} are
\* both falsy and both NoneObj)
RecipientFromCloud(recipient) ==
    IF recipient # NoneObj
    THEN LET inner == Get(recipient, Cc("emailAddress"), recipient)
         IN Recipient(Get(inner, Cc("address"), ""), Get(inner, Cc("name"), ""))
    ELSE Recipient(None, None)

\* _recipients_from_cloud: the mapped recipients go through Recipients(...)
RecipientsFromCloud(wire) ==
    RecipientsInit(PyList([i \in 1..Len(wire) |->
        LET r == RecipientFromCloud(wire[i]) IN PyRecipient(r.address, r.name)])).recipients

\* _recipient_to_cloud; the argument is a Recipient
RecipientToCloud(recipient) ==
    IF RecipientBool(recipient)
    THEN IF recipient.name # ""
         THEN [emailAddress |-> [address |-> recipient.address, name |-> recipient.name]]
         ELSE [emailAddress |-> [address |-> recipient.address]]
    ELSE NoneObj

-----------------------------------------------------------------------------
(* Datetimes: a wall-clock time in minutes with its UTC offset in minutes. *)
(* An ISO-8601 string carries the same two numbers.                        *)

\* get_localzone(): the zone of the machine, here UTC+01:00
LocalOffset == 60
\* pytz.utc
UtcOffset == 0

\* dateutil.parser.parse of an ISO-8601 string with an offset
Parse(iso) == [wall |-> iso.wall, off |-> iso.off]

\* datetime.astimezone
AsTimezone(dt, off) == [wall |-> dt.wall - dt.off + off, off |-> off]

\* datetime.isoformat
IsoFormat(dt) == [wall |-> dt.wall, off |-> dt.off]

\* Message.__init__, one timestamp: absent maps to None
TimestampFromCloud(value) ==
    IF value # NoneObj THEN AsTimezone(Parse(value), LocalOffset) ELSE NoneObj

-----------------------------------------------------------------------------
(* Message construction *)

\* a fresh Recipients object of a Message: its identity and its entries
RecipientsObject(owner, field, rs) == [oid |-> <<owner, field>>, recipients |-> rs]

\* MessageAttachments(parent=self, attachments=[])
AttachmentsObject(owner) == [oid |-> <<owner, "attachments">>, items |-> <<>>]

\* mutant: the wire value is taken as it is
ImportanceFromCloudUnchecked(value) == value

\* Message._importance_options.get(value, 'normal')
ImportanceFromCloud(value) ==
    IF value \in {"normal", "low", "high"} THEN value ELSE "normal"

\* Message.__init__(parent/con, is_draft=is_draft, cloud_data=cloud_data);
\* oid is the identity of the new instance.  download_attachments is not
\* passed, so construction does no I/O.
MessageInit(oid, cloud_data, is_draft) ==
    [ oid |-> oid,
      object_id |-> Get(cloud_data, Cc("id"), None),
      created |-> TimestampFromCloud(Get(cloud_data, Cc("createdDateTime"), NoneObj)),
      received |-> TimestampFromCloud(Get(cloud_data, Cc("receivedDateTime"), NoneObj)),
      sent |-> TimestampFromCloud(Get(cloud_data, Cc("sentDateTime"), NoneObj)),
      attachments |-> AttachmentsObject(oid),
      has_attachments |-> Get(cloud_data, Cc("hasAttachments"), FALSE),
      subject |-> Get(cloud_data, Cc("subject"), ""),
      body |-> Get(Get(cloud_data, Cc("body"), <<>>), Cc("content"), ""),
      body_type |-> Get(Get(cloud_data, Cc("body"), <<>>), Cc("contentType"), "HTML"),
      sender |-> RecipientFromCloud(Get(cloud_data, Cc("from"), NoneObj)),
      to |-> RecipientsObject(oid, "to",
                 RecipientsFromCloud(Get(cloud_data, Cc("toRecipients"), <<>>))),
      cc |-> RecipientsObject(oid, "cc",
                 RecipientsFromCloud(Get(cloud_data, Cc("ccRecipients"), <<>>))),
      bcc |-> RecipientsObject(oid, "bcc",
                 RecipientsFromCloud(Get(cloud_data, Cc("bccRecipients"), <<>>))),
      reply_to |-> RecipientsObject(oid, "reply_to",
                 RecipientsFromCloud(Get(cloud_data, Cc("replyTo"), <<>>))),
      categories |-> Get(cloud_data, Cc("categories"), <<>>),
      importance |-> ImportanceFromCloud(Get(cloud_data, Cc("importance"), "normal")),
      is_read |-> Get(cloud_data, Cc("isRead"), None),
      is_draft |-> Get(cloud_data, Cc("isDraft"), is_draft),
      conversation_id |-> Get(cloud_data, Cc("conversationId"), None),
      folder_id |-> Get(cloud_data, Cc("parentFolderId"), None) ]

\* bool(self.object_id)
HasId(m) == m.object_id \notin {None, ""}

-----------------------------------------------------------------------------
(* Message.to_api_data *)

\* [self._recipient_to_cloud(recipient) for recipient in <list>]
RecipientsToCloud(rs) == [i \in 1..Len(rs) |-> RecipientToCloud(rs[i])]

\* the part of the payload every message emits
BasePayload(m) ==
    [ subject |-> m.subject,
      body |-> [contentType |-> m.body_type, content |-> m.body],
      toRecipients |-> RecipientsToCloud(m.to.recipients),
      ccRecipients |-> RecipientsToCloud(m.cc.recipients),
      bccRecipients |-> RecipientsToCloud(m.bcc.recipients),
      replyTo |-> RecipientsToCloud(m.reply_to.recipients),
      attachments |-> m.attachments.items ]

\* the condition of the signature branch
IsPersistedNotDraft(m) == HasId(m) /\ ~m.is_draft

\* self.<timestamp>.astimezone(pytz.utc).isoformat()
TimestampToCloud(dt) == IsoFormat(AsTimezone(dt, UtcOffset))

\* the signature branch; it is evaluated only when no timestamp is None
SignaturePayload(m) ==
    [ id |-> m.object_id,
      createdDateTime |-> TimestampToCloud(m.created),
      receivedDateTime |-> TimestampToCloud(m.received),
      sentDateTime |-> TimestampToCloud(m.sent),
      hasAttachments |-> Len(m.attachments.items) > 0,
      from |-> RecipientToCloud(m.sender),
      categories |-> m.categories,
      importance |-> m.importance,
      isRead |-> m.is_read,
      isDraft |-> m.is_draft,
      conversationId |-> m.conversation_id,
      parentFolderId |-> m.folder_id ]

\* mutant: from is emitted whatever the sender is
DraftPayloadAlwaysFrom(m) == [from |-> RecipientToCloud(m.sender)]

\* the else branch: from only when the sender has an address
DraftPayload(m) ==
    IF RecipientBool(m.sender) /\ m.sender.address # ""
    THEN [from |-> RecipientToCloud(m.sender)]
    ELSE <<>>

\* Message.to_api_data: the payload, or the AttributeError raised by
\* None.astimezone in the signature branch
ToApiData(m) ==
    IF IsPersistedNotDraft(m)
    THEN IF NoneObj \in {m.created, m.received, m.sent}
         THEN [raised |-> TRUE, exc |-> "AttributeError", data |-> NoneObj]
         ELSE [raised |-> FALSE, exc |-> None, data |-> BasePayload(m) @@ SignaturePayload(m)]
    ELSE [raised |-> FALSE, exc |-> None, data |-> BasePayload(m) @@ DraftPayload(m)]

-----------------------------------------------------------------------------
(* The connection: requests and what comes back *)

\* con.<method>(build_url(endpoint.format(id=id)), data=data)
Request(method, endpoint, id, data) ==
    [method |-> method, endpoint |-> endpoint, id |-> id, data |-> data]

\* wire messages: bodies of responses and cloud data of hydrated messages
SentBody ==
    [ id |-> "m1",
      createdDateTime |-> [wall |-> 600, off |-> 0],
      receivedDateTime |-> [wall |-> 605, off |-> 0],
      sentDateTime |-> [wall |-> 720, off |-> 120],
      hasAttachments |-> FALSE,
      subject |-> "S",
      body |-> [contentType |-> "Text", content |-> "hi"],
      from |-> [emailAddress |-> [address |-> "s@x", name |-> "S"]],
      toRecipients |-> << [emailAddress |-> [address |-> "a@x", name |-> "A"]] >>,
      categories |-> <<"red">>,
      importance |-> "high",
      isRead |-> PyFalse,
      isDraft |-> FALSE,
      conversationId |-> "c1",
      parentFolderId |-> "f1" ]

DraftBody ==
    [ id |-> "m2",
      subject |-> "D",
      toRecipients |-> << [address |-> "b@x"] >>,
      ccRecipients |-> << [emailAddress |-> [name |-> "N"]] >>,
      importance |-> "URGENT",
      isDraft |-> TRUE,
      parentFolderId |-> "f2" ]

\* a persisted message fetched with a selection of its fields
PartialBody ==
    [ id |-> "m3",
      from |-> [emailAddress |-> [address |-> "s@x"]],
      isRead |-> PyTrue,
      isDraft |-> FALSE ]

EmptyBody == <<>>

CloudBodies == {SentBody, DraftBody, PartialBody, EmptyBody}

Statuses == {200, 201, 202, 204, 404}

\* the connection call throws, or returns a response
Throws == [throws |-> TRUE]
Response(status, body) == [throws |-> FALSE, status |-> status, body |-> body]
ConOutcomes ==
    {Throws} \cup {Response(status, body) : status \in Statuses, body \in CloudBodies}

\* no connection call was made
NoOutcome == [throws |-> FALSE, status |-> 0]

-----------------------------------------------------------------------------
(* What a call gives its caller *)

RetTrue == [t |-> "bool", v |-> TRUE]
RetFalse == [t |-> "bool", v |-> FALSE]
RetNone == [t |-> "None"]
\* an exception object handed back by return
RetError(exc) == [t |-> "error", exc |-> exc]
RetMessage(m) == [t |-> "Message", v |-> m]
RetData(d) == [t |-> "dict", v |-> d]
\* the call raised
Raised(exc) == [t |-> "raised", exc |-> exc]

\* the message after the call, what the caller got, the requests made
Result(m, ret, reqs) == [msg |-> m, ret |-> ret, reqs |-> reqs]

\* the identity of an instance created while m is alive
FreshOid(m) == m.oid + 1

\* mutant: the new instance takes over the to list of its parent
DerivedMessageSharingTo(m, body) ==
    [MessageInit(FreshOid(m), body, TRUE) EXCEPT !.to = m.to]

\* self.__class__(parent=self, **{self._cloud_data_key: message})
DerivedMessage(m, body) == MessageInit(FreshOid(m), body, TRUE)

\* a folder argument: a str, or an object that may have a folder_id
FolderStr(v) == [t |-> "str", v |-> v]
FolderObj(folder_id) == [t |-> "Folder", folder_id |-> folder_id]
OtherObj == [t |-> "object"]
\* WellKnowFolderNames.DRAFTS
Drafts == [t |-> "WellKnowFolderNames", name |-> "DRAFTS"]

Folders == {FolderStr("f1"), FolderStr(""), FolderObj("f2"), FolderObj(None), OtherObj}

\* mutant: only a str names a folder
ResolveFolderStrOnly(folder) == IF folder.t = "str" THEN folder.v ELSE None

\* folder if isinstance(folder, str) else getattr(folder, 'folder_id', None)
ResolveFolder(folder) ==
    IF folder.t = "str" THEN folder.v ELSE Get(folder, "folder_id", None)

-----------------------------------------------------------------------------
(* Message: remote operations *)

\* mutant: the draft test of the guard inverted
SendRefusedInverted(m) == HasId(m) /\ m.is_draft

\* send, the guard of its first return
SendRefused(m) == HasId(m) /\ ~m.is_draft

\* mutant: a sent message stays a draft
SendSuccessStillDraft(m) ==
    [m EXCEPT !.object_id = IF ~HasId(m) THEN "sent_message" ELSE m.object_id]

\* mutant: a successful send forgets the id
SendSuccessClearingId(m) == [m EXCEPT !.object_id = None, !.is_draft = FALSE]

\* send, after a 202
SendSuccess(m) ==
    [m EXCEPT !.object_id = IF ~HasId(m) THEN "sent_message" ELSE m.object_id,
              !.is_draft = FALSE]

\* mutant: every send goes to the send-mail endpoint
SendRequestAlwaysMail(m, save_to_sent_folder, data) ==
    Request("POST", "send_mail", None,
            [message |-> data]
            @@ (IF ~save_to_sent_folder THEN [saveToSentItems |-> FALSE] ELSE <<>>))

\* send, the request
SendRequest(m, save_to_sent_folder, data) ==
    IF m.is_draft /\ HasId(m)
    THEN Request("POST", "send_draft", m.object_id, NoneObj)
    ELSE Request("POST", "send_mail", None,
                 [message |-> data]
                 @@ (IF ~save_to_sent_folder THEN [saveToSentItems |-> FALSE] ELSE <<>>))

\* Message.send
MessageSend(m, save_to_sent_folder, out) ==
    IF SendRefused(m) THEN Result(m, RetError("RuntimeError"), <<>>)
    ELSE LET api == IF m.is_draft /\ HasId(m) THEN [raised |-> FALSE, data |-> NoneObj]
                    ELSE ToApiData(m)
         IN IF api.raised THEN Result(m, Raised(api.exc), <<>>)
            ELSE LET req == SendRequest(m, save_to_sent_folder, api.data)
                 IN IF out.throws THEN Result(m, RetFalse, <<req>>)
                    ELSE IF out.status # 202 THEN Result(m, RetFalse, <<req>>)
                    ELSE Result(SendSuccess(m), RetTrue, <<req>>)

\* Message.reply
MessageReply(m, to_all, out) ==
    IF ~HasId(m) \/ m.is_draft THEN Result(m, Raised("RuntimeError"), <<>>)
    ELSE LET req == Request("POST", IF to_all THEN "create_reply_all" ELSE "create_reply",
                            m.object_id, NoneObj)
         IN IF out.throws THEN Result(m, RetNone, <<req>>)
            ELSE IF out.status # 201 THEN Result(m, RetNone, <<req>>)
            ELSE Result(m, RetMessage(DerivedMessage(m, out.body)), <<req>>)

\* Message.forward
MessageForward(m, out) ==
    IF ~HasId(m) \/ m.is_draft THEN Result(m, Raised("RuntimeError"), <<>>)
    ELSE LET req == Request("POST", "forward_message", m.object_id, NoneObj)
         IN IF out.throws THEN Result(m, RetNone, <<req>>)
            ELSE IF out.status # 201 THEN Result(m, RetNone, <<req>>)
            ELSE Result(m, RetMessage(DerivedMessage(m, out.body)), <<req>>)

\* mutant: delete without its try/except, an exception of the connection
\* reaches the caller
MessageDeleteUncaught(m, out) ==
    IF m.object_id = None THEN Result(m, Raised("RuntimeError"), <<>>)
    ELSE LET req == Request("DELETE", "get_message", m.object_id, NoneObj)
         IN IF out.throws THEN Result(m, Raised("Exception"), <<req>>)
            ELSE IF out.status # 204 THEN Result(m, RetFalse, <<req>>)
            ELSE Result(m, RetTrue, <<req>>)

\* mutant: delete tries a second time when the connection throws
MessageDeleteRetrying(m, out) ==
    IF m.object_id = None THEN Result(m, Raised("RuntimeError"), <<>>)
    ELSE LET req == Request("DELETE", "get_message", m.object_id, NoneObj)
         IN IF out.throws THEN Result(m, RetFalse, <<req, req>>)
            ELSE IF out.status # 204 THEN Result(m, RetFalse, <<req>>)
            ELSE Result(m, RetTrue, <<req>>)

\* mutant: a deleted message forgets its id
MessageDeleteClearingId(m, out) ==
    IF m.object_id = None THEN Result(m, Raised("RuntimeError"), <<>>)
    ELSE LET req == Request("DELETE", "get_message", m.object_id, NoneObj)
         IN IF out.throws THEN Result(m, RetFalse, <<req>>)
            ELSE IF out.status # 204 THEN Result(m, RetFalse, <<req>>)
            ELSE Result([m EXCEPT !.object_id = None], RetTrue, <<req>>)

\* Message.delete
MessageDelete(m, out) ==
    IF m.object_id = None THEN Result(m, Raised("RuntimeError"), <<>>)
    ELSE LET req == Request("DELETE", "get_message", m.object_id, NoneObj)
         IN IF out.throws THEN Result(m, RetFalse, <<req>>)
            ELSE IF out.status # 204 THEN Result(m, RetFalse, <<req>>)
            ELSE Result(m, RetTrue, <<req>>)

\* mutant: is_read is set before the request is made
MessageMarkAsReadOptimistic(m, out) ==
    IF m.object_id = None \/ m.is_draft THEN Result(m, Raised("RuntimeError"), <<>>)
    ELSE LET req == Request("PATCH", "get_message", m.object_id, [isRead |-> TRUE])
             read == [m EXCEPT !.is_read = PyTrue]
         IN IF out.throws THEN Result(read, RetFalse, <<req>>)
            ELSE IF out.status # 200 THEN Result(read, RetFalse, <<req>>)
            ELSE Result(read, RetTrue, <<req>>)

\* Message.mark_as_read
MessageMarkAsRead(m, out) ==
    IF m.object_id = None \/ m.is_draft THEN Result(m, Raised("RuntimeError"), <<>>)
    ELSE LET req == Request("PATCH", "get_message", m.object_id, [isRead |-> TRUE])
         IN IF out.throws THEN Result(m, RetFalse, <<req>>)
            ELSE IF out.status # 200 THEN Result(m, RetFalse, <<req>>)
            ELSE Result([m EXCEPT !.is_read = PyTrue], RetTrue, <<req>>)

\* Message.move
MessageMove(m, folder, out) ==
    IF m.object_id = None THEN Result(m, Raised("RuntimeError"), <<>>)
    ELSE LET folder_id == ResolveFolder(folder)
         IN IF folder_id \in {None, ""} THEN Result(m, Raised("RuntimeError"), <<>>)
            ELSE LET req == Request("POST", "move_message", m.object_id,
                                    [destinationId |-> folder_id])
                 IN IF out.throws THEN Result(m, RetFalse, <<req>>)
                    ELSE IF out.status # 201 THEN Result(m, RetFalse, <<req>>)
                    ELSE Result([m EXCEPT !.folder_id = folder_id], RetTrue, <<req>>)

\* Message.copy
MessageCopy(m, folder, out) ==
    IF m.object_id = None THEN Result(m, Raised("RuntimeError"), <<>>)
    ELSE LET folder_id == ResolveFolder(folder)
         IN IF folder_id \in {None, ""} THEN Result(m, Raised("RuntimeError"), <<>>)
            ELSE LET req == Request("POST", "copy_message", m.object_id,
                                    [destinationId |-> folder_id])
                 IN IF out.throws THEN Result(m, RetNone, <<req>>)
                    ELSE IF out.status # 201 THEN Result(m, RetNone, <<req>>)
                    ELSE Result(m, RetMessage(DerivedMessage(m, out.body)), <<req>>)

\* a categories argument: a list, a tuple, or something else (here a str)
CatList(items) == [t |-> "list", items |-> items]
CatTuple(items) == [t |-> "tuple", items |-> items]
CatStr(v) == [t |-> "str", items |-> <<v>>]
CategoryArgs == {CatList(<<"blue">>), CatTuple(<<"blue", "red">>), CatStr("blue")}

\* the categories setter: a list is kept, a str is wrapped, a tuple is
\* copied to a list, anything else raises ValueError
CategoriesSetter(m, value) ==
    IF value.t \in {"list", "str", "tuple"}
    THEN [raised |-> FALSE, msg |-> [m EXCEPT !.categories = value.items]]
    ELSE [raised |-> TRUE, msg |-> m]

\* mutant: the categories passed in are stored, not those of the response
MessageUpdateCategoryFromArgument(m, categories, out) ==
    IF categories.t \notin {"list", "tuple"} THEN Result(m, Raised("ValueError"), <<>>)
    ELSE IF m.object_id = None THEN Result(m, Raised("RuntimeError"), <<>>)
    ELSE LET req == Request("PATCH", "get_message", m.object_id,
                            [categories |-> categories.items])
         IN IF out.throws THEN Result(m, RetFalse, <<req>>)
            ELSE IF out.status # 200 THEN Result(m, RetFalse, <<req>>)
            ELSE Result(CategoriesSetter(m, categories).msg, RetTrue, <<req>>)

\* Message.update_category
MessageUpdateCategory(m, categories, out) ==
    IF categories.t \notin {"list", "tuple"} THEN Result(m, Raised("ValueError"), <<>>)
    ELSE IF m.object_id = None THEN Result(m, Raised("RuntimeError"), <<>>)
    ELSE LET req == Request("PATCH", "get_message", m.object_id,
                            [categories |-> categories.items])
         IN IF out.throws THEN Result(m, RetFalse, <<req>>)
            ELSE IF out.status # 200 THEN Result(m, RetFalse, <<req>>)
            ELSE LET set == CategoriesSetter(m, CatList(Get(out.body, Cc("categories"), <<>>)))
                 IN IF set.raised THEN Result(m, Raised("ValueError"), <<req>>)
                    ELSE Result(set.msg, RetTrue, <<req>>)

\* mutant: the folder of the saved draft is not recorded
SaveDraftSuccessIdOnly(m, message) ==
    [m EXCEPT !.object_id = Get(message, Cc("id"), None)]

\* save_draft, after a 201
SaveDraftSuccess(m, message) ==
    [m EXCEPT !.object_id = Get(message, Cc("id"), None),
              !.folder_id = Get(message, Cc("parentFolderId"), None)]

\* save_draft, the request
SaveDraftRequest(target_folder, data) ==
    LET resolved == ResolveFolder(target_folder)
    IN IF resolved \notin {None, ""} /\ target_folder # Drafts
       THEN Request("POST", "create_draft_folder", resolved, data)
       ELSE Request("POST", "create_draft", None, data)

\* Message.save_draft
MessageSaveDraft(m, target_folder, out) ==
    IF ~m.is_draft THEN Result(m, Raised("RuntimeError"), <<>>)
    ELSE IF HasId(m) THEN Result(m, Raised("RuntimeError"), <<>>)
    ELSE LET api == ToApiData(m)
         IN IF api.raised THEN Result(m, Raised(api.exc), <<>>)
            ELSE LET req == SaveDraftRequest(target_folder, api.data)
                 IN IF out.throws THEN Result(m, RetFalse, <<req>>)
                    ELSE IF out.status # 201 THEN Result(m, RetFalse, <<req>>)
                    ELSE Result(SaveDraftSuccess(m, out.body), RetTrue, <<req>>)

\* the sender setter: a Recipient replaces the sender, a str sets its address
SenderSetter(m, value) ==
    IF value.t = "Recipient"
    THEN Result([m EXCEPT !.sender = [address |-> value.address, name |-> value.name]],
                RetNone, <<>>)
    ELSE IF value.t = "str" THEN Result([m EXCEPT !.sender.address = value.v], RetNone, <<>>)
    ELSE Result(m, Raised("ValueError"), <<>>)

\* msg.to[i].address = value: address is a plain attribute of the Recipient
\* that Recipients.__getitem__ hands out
RecipientAddressSetter(m, i, value) ==
    Result([m EXCEPT !.to.recipients[i].address = value], RetNone, <<>>)

-----------------------------------------------------------------------------
(* The Recipients list under test *)

RAdd ==
    /\ rcall = Idle
    /\ Len(recipients) <= MaxExisting
    /\ \E x \in Inputs :
         LET r == RecipientsAdd(recipients, x)
         IN /\ recipients' = r.recipients
            /\ rcall' = [op |-> "add", arg |-> x, pre |-> recipients, raised |-> r.raised]
    /\ UNCHANGED <<msg, call>>

RRemove ==
    /\ rcall = Idle
    /\ \E addresses \in {{"a@x"}, {"b@x", "c@x"}} :
         /\ recipients' = RecipientsRemove(recipients, addresses)
         /\ rcall' = [op |-> "remove", arg |-> addresses, pre |-> recipients, raised |-> FALSE]
    /\ UNCHANGED <<msg, call>>

RClear ==
    /\ rcall = Idle
    /\ recipients' = <<>>
    /\ rcall' = [op |-> "clear", arg |-> None, pre |-> recipients, raised |-> FALSE]
    /\ UNCHANGED <<msg, call>>

\* the recipients handed to the cloud mapper
RecipientValues == {Recipient(a, n) : a \in {"", "a@x", "b@x"}, n \in {"", "A"}}

\* _recipient_to_cloud of a recipient, and _recipient_from_cloud of the result
CloudRoundTrip ==
    /\ rcall = Idle
    /\ \E r \in RecipientValues :
         LET wire == RecipientToCloud(r)
         IN rcall' = [op |-> "recipient_to_cloud", arg |-> r, pre |-> recipients,
                      raised |-> FALSE, wire |-> wire, back |-> RecipientFromCloud(wire)]
    /\ UNCHANGED <<recipients, msg, call>>

\* the caller takes the result and goes on
RReturn ==
    /\ rcall # Idle
    /\ rcall' = Idle
    /\ UNCHANGED <<recipients, msg, call>>

InitRecipients ==
    /\ recipients = <<>>
    /\ rcall = Idle
    /\ msg = MessageInit(1, EmptyBody, TRUE)
    /\ call = Idle

NextRecipients == RAdd \/ RRemove \/ RClear \/ CloudRoundTrip \/ RReturn

SpecRecipients == InitRecipients /\ [][NextRecipients]_vars

-----------------------------------------------------------------------------
(* The Message under test *)

\* the call as its caller observes it: the message before, the arguments,
\* what the connection did, the requests made and what came back
Called(op, args, out, r) ==
    [ op |-> op, args |-> args, pre |-> msg, ret |-> r.ret, reqs |-> r.reqs,
      out |-> IF r.reqs = <<>> THEN NoOutcome ELSE out ]

Send ==
    /\ call = Idle
    /\ \E save_to_sent_folder \in BOOLEAN, out \in ConOutcomes :
         LET r == MessageSend(msg, save_to_sent_folder, out)
         IN /\ msg' = r.msg
            /\ call' = Called("send", <<save_to_sent_folder>>, out, r)
    /\ UNCHANGED <<recipients, rcall>>

Reply ==
    /\ call = Idle
    /\ \E to_all \in BOOLEAN, out \in ConOutcomes :
         LET r == MessageReply(msg, to_all, out)
         IN /\ msg' = r.msg
            /\ call' = Called("reply", <<to_all>>, out, r)
    /\ UNCHANGED <<recipients, rcall>>

Forward ==
    /\ call = Idle
    /\ \E out \in ConOutcomes :
         LET r == MessageForward(msg, out)
         IN /\ msg' = r.msg
            /\ call' = Called("forward", <<>>, out, r)
    /\ UNCHANGED <<recipients, rcall>>

Delete ==
    /\ call = Idle
    /\ \E out \in ConOutcomes :
         LET r == MessageDelete(msg, out)
         IN /\ msg' = r.msg
            /\ call' = Called("delete", <<>>, out, r)
    /\ UNCHANGED <<recipients, rcall>>

MarkAsRead ==
    /\ call = Idle
    /\ \E out \in ConOutcomes :
         LET r == MessageMarkAsRead(msg, out)
         IN /\ msg' = r.msg
            /\ call' = Called("mark_as_read", <<>>, out, r)
    /\ UNCHANGED <<recipients, rcall>>

Move ==
    /\ call = Idle
    /\ \E folder \in Folders, out \in ConOutcomes :
         LET r == MessageMove(msg, folder, out)
         IN /\ msg' = r.msg
            /\ call' = Called("move", <<folder>>, out, r)
    /\ UNCHANGED <<recipients, rcall>>

Copy ==
    /\ call = Idle
    /\ \E folder \in Folders, out \in ConOutcomes :
         LET r == MessageCopy(msg, folder, out)
         IN /\ msg' = r.msg
            /\ call' = Called("copy", <<folder>>, out, r)
    /\ UNCHANGED <<recipients, rcall>>

UpdateCategory ==
    /\ call = Idle
    /\ \E categories \in CategoryArgs, out \in ConOutcomes :
         LET r == MessageUpdateCategory(msg, categories, out)
         IN /\ msg' = r.msg
            /\ call' = Called("update_category", <<categories>>, out, r)
    /\ UNCHANGED <<recipients, rcall>>

SaveDraft ==
    /\ call = Idle
    /\ \E target_folder \in {Drafts, FolderStr("f1"), FolderObj("f2"), FolderObj(None)},
          out \in ConOutcomes :
         LET r == MessageSaveDraft(msg, target_folder, out)
         IN /\ msg' = r.msg
            /\ call' = Called("save_draft", <<target_folder>>, out, r)
    /\ UNCHANGED <<recipients, rcall>>

\* a caller asks for the payload
CallToApiData ==
    /\ call = Idle
    /\ LET api == ToApiData(msg)
           r == Result(msg, IF api.raised THEN Raised(api.exc) ELSE RetData(api.data), <<>>)
       IN /\ msg' = r.msg
          /\ call' = Called("to_api_data", <<>>, NoOutcome, r)
    /\ UNCHANGED <<recipients, rcall>>

\* a caller assigns msg.sender
SetSender ==
    /\ call = Idle
    /\ \E value \in {PyStr("me@x"), PyRecipient("", "N"), PyOther(TRUE)} :
         LET r == SenderSetter(msg, value)
         IN /\ msg' = r.msg
            /\ call' = Called("sender", <<value>>, NoOutcome, r)
    /\ UNCHANGED <<recipients, rcall>>

\* a caller edits the address of a recipient of msg.to
SetRecipientAddress ==
    /\ call = Idle
    /\ \E i \in 1..Len(msg.to.recipients), value \in {"", "n@x"} :
         LET r == RecipientAddressSetter(msg, i, value)
         IN /\ msg' = r.msg
            /\ call' = Called("to.address", <<i, value>>, NoOutcome, r)
    /\ UNCHANGED <<recipients, rcall>>

\* the caller takes the result and goes on
Return ==
    /\ call # Idle
    /\ call' = Idle
    /\ UNCHANGED <<msg, recipients, rcall>>

\* a new message (no cloud data, is_draft given or defaulted to True), or a
\* message hydrated from cloud data
Init ==
    /\ \E cloud_data \in CloudBodies, is_draft \in BOOLEAN :
         msg = MessageInit(1, cloud_data, is_draft)
    /\ call = Idle
    /\ recipients = <<>>
    /\ rcall = Idle

Next ==
    \/ Send \/ Reply \/ Forward \/ Delete \/ MarkAsRead \/ Move \/ Copy
    \/ UpdateCategory \/ SaveDraft \/ CallToApiData \/ SetSender
    \/ SetRecipientAddress \/ Return

Spec == Init /\ [][Next]_vars

-----------------------------------------------------------------------------
(* Properties of Recipients.add *)

RECURSIVE Leaves(_), LeavesOf(_, _)
\* the leaves of an argument, depth first, in input order
Leaves(x) == IF x.t = "list" THEN LeavesOf(x.items, 1) ELSE <<x>>
LeavesOf(items, i) ==
    IF i > Len(items) THEN <<>> ELSE Leaves(items[i]) \o LeavesOf(items, i + 1)

\* a string, a Recipient, a (name, address) tuple or a nested list of these
ValidInput(x) == \A i \in 1..Len(Leaves(x)) : Leaves(x)[i].t # "other"

\* some leaf is a truthy value of another type
HasTruthyOther(x) ==
    \E i \in 1..Len(Leaves(x)) : Leaves(x)[i].t = "other" /\ Leaves(x)[i].truthy

IsNested(x) == x.t = "list" /\ \E i \in 1..Len(x.items) : x.items[i].t = "list"

LeafAddress(l) == IF l.t = "str" THEN l.v ELSE IF l.t = "other" THEN "" ELSE l.address
LeafName(l) == IF l.t \in {"str", "other"} THEN "" ELSE l.name

\* does the leaf add a recipient: always when its address is non-empty, and
\* a Recipient instance with an empty address when keepEmptyInstances
Keeps(l, keepEmptyInstances) ==
    LeafAddress(l) # "" \/ (keepEmptyInstances /\ l.t = "Recipient")

RECURSIVE MapLeaves(_, _, _)
\* the recipients of the leaves that add one, in order
MapLeaves(ls, i, keepEmptyInstances) ==
    IF i > Len(ls) THEN <<>>
    ELSE (IF Keeps(ls[i], keepEmptyInstances)
          THEN <<[address |-> LeafAddress(ls[i]), name |-> LeafName(ls[i])]>>
          ELSE <<>>) \o MapLeaves(ls, i + 1, keepEmptyInstances)

\* what C9 states: only a tuple with an empty address adds nothing (an empty
\* string is read here as no address string at all, in the claim's favour)
ClaimedRecipients(x) == MapLeaves(Leaves(x), 1, TRUE)

\* what add does: every leaf with an empty address adds nothing
FlattenedRecipients(x) == MapLeaves(Leaves(x), 1, FALSE)

\* C9 as stated: for every valid input add appends the corresponding
\* recipients in input order, depth first, after the existing entries, and
\* only a (name, "") tuple adds nothing.
C9_AddAppendsAllButEmptyTuples ==
    (rcall.op = "add" /\ ValidInput(rcall.arg)) =>
        /\ ~rcall.raised
        /\ recipients = rcall.pre \o ClaimedRecipients(rcall.arg)

\* C9 amended: for every valid input add raises nothing and appends, after
\* the existing entries, in input order and depth first, one recipient per
\* leaf with a non-empty address; an empty string, a Recipient with an empty
\* address and a (name, "") tuple add nothing.
C9_AddAppendsNonEmptyFlattened ==
    (rcall.op = "add" /\ ValidInput(rcall.arg)) =>
        /\ ~rcall.raised
        /\ recipients = rcall.pre \o FlattenedRecipients(rcall.arg)

C9_Witness ==
    /\ rcall.op = "add"
    /\ ValidInput(rcall.arg)
    /\ IsNested(rcall.arg)
    /\ rcall.pre # <<>>
    /\ Len(recipients) >= Len(rcall.pre) + 2
    /\ recipients[Len(recipients)].address # recipients[Len(recipients) - 1].address

OnlyEmptyAddressEntries(x) ==
    /\ Leaves(x) # <<>>
    /\ \A i \in 1..Len(Leaves(x)) :
         Leaves(x)[i].t \in {"Recipient", "tuple"} /\ Leaves(x)[i].address = ""

\* C11 as stated: a Recipient instance with an empty address is stored by
\* add, a (name, "") tuple is dropped.
C11_EmptyInstanceStoredEmptyTupleDropped ==
    (rcall.op = "add" /\ rcall.arg.t \in {"Recipient", "tuple"} /\ rcall.arg.address = "")
    => /\ ~rcall.raised
       /\ recipients = IF rcall.arg.t = "Recipient"
                       THEN Append(rcall.pre, [address |-> "", name |-> rcall.arg.name])
                       ELSE rcall.pre

\* C11 amended: add drops an empty-address entry on both paths: a Recipient
\* instance with an empty address, like a (name, "") tuple, raises no error
\* and is not stored, alone or inside a list.
C11_EmptyAddressDroppedOnBothPaths ==
    (rcall.op = "add" /\ OnlyEmptyAddressEntries(rcall.arg))
    => ~rcall.raised /\ recipients = rcall.pre

C11_Witness ==
    /\ rcall.op = "add"
    /\ rcall.arg = PyRecipient("", "N")
    /\ rcall.pre # <<>>
    /\ ~rcall.raised
    /\ recipients = rcall.pre

-----------------------------------------------------------------------------
(* Properties of the cloud mapping *)

\* C12: for a recipient with a non-empty address, from_cloud(to_cloud(r))
\* has the address and name of r; to_cloud emits the name key only when the
\* name is non-empty, and gives None for a recipient with an empty address.
C12_RecipientRoundTrip ==
    rcall.op = "recipient_to_cloud" =>
        IF rcall.arg.address # ""
        THEN /\ rcall.back.address = rcall.arg.address
             /\ rcall.back.name = rcall.arg.name
             /\ DOMAIN rcall.wire = {"emailAddress"}
             /\ rcall.wire.emailAddress.address = rcall.arg.address
             /\ "name" \in DOMAIN rcall.wire.emailAddress <=> rcall.arg.name # ""
        ELSE rcall.wire = NoneObj

C12_Witness ==
    /\ rcall.op = "recipient_to_cloud"
    /\ rcall.arg = [address |-> "a@x", name |-> "A"]
    /\ rcall.wire = [emailAddress |-> [address |-> "a@x", name |-> "A"]]
    /\ rcall.back = rcall.arg

-----------------------------------------------------------------------------
(* Properties of the remote operations *)

RemoteOps ==
    {"send", "reply", "forward", "delete", "mark_as_read", "move", "copy",
     "update_category", "save_draft"}

\* the operations that return an object (or None) rather than a boolean
ObjectOps == {"reply", "forward", "copy"}

\* the contract table: the status code that signals success
ExpectedStatus(op) ==
    CASE op = "send" -> 202
      [] op \in {"reply", "forward", "move", "copy", "save_draft"} -> 201
      [] op = "delete" -> 204
      [] op \in {"mark_as_read", "update_category"} -> 200

\* the contract table: the precondition of op on message m with args
Precondition(op, m, args) ==
    CASE op = "send" -> ~(HasId(m) /\ ~m.is_draft)
      [] op \in {"reply", "forward", "mark_as_read"} -> HasId(m) /\ ~m.is_draft
      [] op = "delete" -> HasId(m)
      [] op \in {"move", "copy"} ->
            /\ HasId(m)
            /\ \/ args[1].t = "str" /\ args[1].v # ""
               \/ args[1].t = "Folder" /\ args[1].folder_id \notin {None, ""}
      [] op = "update_category" -> HasId(m) /\ args[1].t \in {"list", "tuple"}
      [] op = "save_draft" -> m.is_draft /\ ~HasId(m)

\* the connection call threw, or the status is not the expected one
RemoteFailure == call.out.throws \/ call.out.status # ExpectedStatus(call.op)

\* the response had the expected status
RemoteSuccess == call.reqs # <<>> /\ ~call.out.throws /\ call.out.status = ExpectedStatus(call.op)

\* C1: a remote operation whose precondition holds and whose connection
\* call throws or answers with another status than the expected one does not
\* raise; it returns False, or None if it is reply, forward or copy.
C1_RemoteFailureReturnsFalseOrNone ==
    (/\ call.op \in RemoteOps
     /\ Precondition(call.op, call.pre, call.args)
     /\ RemoteFailure)
    => /\ call.reqs # <<>>
       /\ call.ret = IF call.op \in ObjectOps THEN RetNone ELSE RetFalse

C1_Witness ==
    /\ call.op = "send"
    /\ Precondition(call.op, call.pre, call.args)
    /\ ~call.out.throws
    /\ call.out.status = 201
    /\ call.ret = RetFalse

\* C2 as stated: a remote operation whose precondition is violated raises
\* an error to its caller and makes no connection call.
C2_PreconditionViolationRaises ==
    (call.op \in RemoteOps /\ ~Precondition(call.op, call.pre, call.args))
    => call.ret.t = "raised" /\ call.reqs = <<>>

\* C3: send on a message with an object_id that is not a draft returns an
\* error value, makes no connection call and leaves object_id and is_draft
\* as they were.
C3_SendOnSentReturnsErrorValue ==
    (call.op = "send" /\ HasId(call.pre) /\ ~call.pre.is_draft)
    => /\ call.ret.t = "error"
       /\ call.reqs = <<>>
       /\ msg.object_id = call.pre.object_id
       /\ msg.is_draft = call.pre.is_draft

C3_Witness ==
    /\ call.op = "send"
    /\ HasId(call.pre) /\ ~call.pre.is_draft
    /\ call.ret = RetError("RuntimeError")

\* C4: an allowed send that gets a 202 returns True, makes the message a
\* non-draft, and sets object_id to "sent_message" if it was absent and keeps
\* it otherwise.
C4_SendSuccess ==
    (/\ call.op = "send"
     /\ Precondition("send", call.pre, call.args)
     /\ ~call.out.throws /\ call.out.status = 202)
    => /\ call.ret = RetTrue
       /\ ~msg.is_draft
       /\ msg.object_id = IF call.pre.object_id = None THEN "sent_message"
                          ELSE call.pre.object_id

C4_Witness ==
    /\ call.op = "send"
    /\ call.ret = RetTrue
    /\ call.pre.is_draft
    /\ call.pre.object_id = None
    /\ msg.object_id = "sent_message"

\* the addresses of a wire recipient list, empty ones left out
WireAddresses(wire) ==
    LET Address(w) == IF "emailAddress" \in DOMAIN w
                      THEN Get(w.emailAddress, "address", "")
                      ELSE Get(w, "address", "")
    IN SelectSeq([i \in 1..Len(wire) |-> Address(wire[i])], LAMBDA a : a # "")

Addresses(rs) == [i \in 1..Len(rs) |-> rs[i].address]

\* the identities of the collections a message owns
OwnedOids(m) == {m.to.oid, m.cc.oid, m.bcc.oid, m.reply_to.oid, m.attachments.oid}

\* C5: reply, forward and copy, on a 201, return a new Message hydrated
\* from the response body, with recipient lists and an attachment collection
\* of its own, and leave every field of the original message unchanged.
C5_DerivedMessageIsNewAndOriginalUnchanged ==
    (call.op \in ObjectOps /\ RemoteSuccess)
    => /\ call.ret.t = "Message"
       /\ call.ret.v.oid # msg.oid
       /\ OwnedOids(call.ret.v) \cap OwnedOids(msg) = {}
       /\ call.ret.v.object_id = Get(call.out.body, "id", None)
       /\ call.ret.v.subject = Get(call.out.body, "subject", "")
       /\ call.ret.v.is_draft = Get(call.out.body, "isDraft", TRUE)
       /\ call.ret.v.folder_id = Get(call.out.body, "parentFolderId", None)
       /\ Addresses(call.ret.v.to.recipients)
            = WireAddresses(Get(call.out.body, "toRecipients", <<>>))
       /\ msg = call.pre

C5_Witness ==
    /\ call.op = "copy"
    /\ call.ret.t = "Message"
    /\ call.ret.v.object_id = "m1"
    /\ call.pre.object_id = "m3"
    /\ Len(call.ret.v.to.recipients) = 1
    /\ msg = call.pre

\* C6: save_draft on a draft without object_id, on a 201, returns True,
\* sets object_id and folder_id to the id and parentFolderId of the response
\* body (None for a key the body lacks) and leaves is_draft true.
C6_SaveDraftSuccess ==
    (/\ call.op = "save_draft"
     /\ call.pre.is_draft /\ ~HasId(call.pre)
     /\ ~call.out.throws /\ call.out.status = 201)
    => /\ call.ret = RetTrue
       /\ msg.object_id = Get(call.out.body, "id", None)
       /\ msg.folder_id = Get(call.out.body, "parentFolderId", None)
       /\ msg.is_draft

C6_Witness ==
    /\ call.op = "save_draft"
    /\ call.ret = RetTrue
    /\ call.pre.object_id = None
    /\ msg.object_id = "m2"
    /\ msg.folder_id = "f2"
    /\ msg.is_draft

SignatureOnlyKeys ==
    {"id", "createdDateTime", "receivedDateTime", "sentDateTime", "hasAttachments",
     "categories", "importance", "isRead", "isDraft", "conversationId",
     "parentFolderId"}

\* C7 as stated: on every message with an object_id that is not a draft,
\* to_api_data returns a payload with all the signature fields.
C7_PersistedPayloadHasSignature ==
    (call.op = "to_api_data" /\ HasId(call.pre) /\ ~call.pre.is_draft)
    => /\ call.ret.t = "dict"
       /\ SignatureOnlyKeys \cup {"from"} \subseteq DOMAIN call.ret.v

\* C8: on a new or draft message to_api_data emits from exactly when the
\* sender has a non-empty address, and none of the signature-only keys.
C8_DraftPayload ==
    (call.op = "to_api_data" /\ (~HasId(call.pre) \/ call.pre.is_draft))
    => /\ call.ret.t = "dict"
       /\ "from" \in DOMAIN call.ret.v <=> call.pre.sender.address # ""
       /\ DOMAIN call.ret.v \cap SignatureOnlyKeys = {}

C8_Witness ==
    /\ call.op = "to_api_data"
    /\ call.pre.is_draft
    /\ HasId(call.pre)
    /\ call.ret.t = "dict"
    /\ "from" \in DOMAIN call.ret.v
    /\ call.ret.v.from.emailAddress.address = "me@x"

\* C13: an invocation of a remote operation makes at most one connection
\* call, and after a failed attempt it returns its failure value with that
\* one request made and no other.
C13_NoRetries ==
    call.op \in RemoteOps =>
        /\ Len(call.reqs) <= 1
        /\ (call.reqs # <<>> /\ RemoteFailure) =>
              /\ Len(call.reqs) = 1
              /\ call.ret \in {RetFalse, RetNone}

C13_Witness ==
    /\ call.op = "save_draft"
    /\ call.out.throws
    /\ Len(call.reqs) = 1
    /\ call.ret = RetFalse

ImportanceOptions == {"normal", "low", "high"}

\* C14: a Message hydrated from wire data has the importance of the wire
\* data if that is normal, low or high, and normal for any other value or
\* when the key is absent; the importance of a constructed message is
\* always one of the three.
C14_ImportanceNormalised ==
    /\ msg.importance \in ImportanceOptions
    /\ (call.op \in ObjectOps /\ call.ret.t = "Message") =>
          LET wire == Get(call.out.body, "importance", "normal")
          IN call.ret.v.importance = IF wire \in ImportanceOptions THEN wire ELSE "normal"

C14_Witness ==
    /\ call.op = "reply"
    /\ call.ret.t = "Message"
    /\ Get(call.out.body, "importance", "normal") = "URGENT"
    /\ call.ret.v.importance = "normal"

\* C15: send on a draft with an object_id posts to the send-draft endpoint
\* of that id with no body; in every other allowed state it posts to the
\* send-mail endpoint the payload {message: to_api_data()}, with
\* saveToSentItems = false added exactly when save_to_sent_folder is False.
C15_SendRequest ==
    (call.op = "send" /\ Precondition("send", call.pre, call.args)) =>
        /\ Len(call.reqs) = 1
        /\ call.reqs[1].method = "POST"
        /\ IF call.pre.is_draft /\ HasId(call.pre)
           THEN /\ call.reqs[1].endpoint = "send_draft"
                /\ call.reqs[1].id = call.pre.object_id
                /\ call.reqs[1].data = NoneObj
           ELSE /\ call.reqs[1].endpoint = "send_mail"
                /\ call.reqs[1].data.message = ToApiData(call.pre).data
                /\ DOMAIN call.reqs[1].data \subseteq {"message", "saveToSentItems"}
                /\ "saveToSentItems" \in DOMAIN call.reqs[1].data <=> ~call.args[1]
                /\ ~call.args[1] => call.reqs[1].data.saveToSentItems = FALSE

C15_Witness ==
    /\ call.op = "send"
    /\ call.pre.is_draft
    /\ call.pre.object_id = "m1"
    /\ call.reqs = <<Request("POST", "send_draft", "m1", NoneObj)>>

\* the id a folder argument stands for, None when it has none
FolderIdOf(folder) ==
    CASE folder.t = "str" -> folder.v
      [] folder.t = "Folder" -> folder.folder_id
      [] OTHER -> None

\* C16: move on a message with an id posts {destinationId: the resolved
\* id}; on a 201 it returns True and folder_id is the resolved id; a folder
\* that resolves to an empty or missing id raises before any connection
\* call and leaves folder_id unchanged.
C16_Move ==
    (call.op = "move" /\ HasId(call.pre)) =>
        LET folder_id == FolderIdOf(call.args[1])
        IN IF folder_id \in {None, ""}
           THEN /\ call.ret.t = "raised"
                /\ call.reqs = <<>>
                /\ msg.folder_id = call.pre.folder_id
           ELSE /\ call.reqs = <<Request("POST", "move_message", call.pre.object_id,
                                         [destinationId |-> folder_id])>>
                /\ RemoteSuccess => call.ret = RetTrue /\ msg.folder_id = folder_id

C16_Witness ==
    /\ call.op = "move"
    /\ call.args[1] = FolderObj("f2")
    /\ call.ret = RetTrue
    /\ call.pre.folder_id = "f1"
    /\ msg.folder_id = "f2"

\* C17: update_category with a list or tuple on a message with an id, on a
\* 200, returns True and replaces the categories with those of the response
\* body, the empty list when it has none, not with the argument.
C17_UpdateCategoryFromResponse ==
    (/\ call.op = "update_category"
     /\ Precondition("update_category", call.pre, call.args)
     /\ ~call.out.throws /\ call.out.status = 200)
    => /\ call.ret = RetTrue
       /\ msg.categories = Get(call.out.body, "categories", <<>>)

C17_Witness ==
    /\ call.op = "update_category"
    /\ call.args[1] = CatList(<<"blue">>)
    /\ call.ret = RetTrue
    /\ call.pre.categories = <<>>
    /\ msg.categories = <<"red">>

\* the fields the frame properties speak of
LocalState(m) == <<m.object_id, m.is_draft, m.is_read, m.folder_id, m.categories>>

\* C18: delete on a message with an id returns True on a 204 and changes
\* nothing locally, on success and on failure.
C18_DeleteNoLocalMutation ==
    (call.op = "delete" /\ HasId(call.pre)) =>
        /\ LocalState(msg) = LocalState(call.pre)
        /\ msg = call.pre
        /\ (~call.out.throws /\ call.out.status = 204) => call.ret = RetTrue

C18_Witness ==
    /\ call.op = "delete"
    /\ call.ret = RetTrue
    /\ call.out.status = 204
    /\ msg.object_id = "m1"
    /\ msg = call.pre

\* the number of entries of a list of recipients with a non-empty address
RECURSIVE CountWithAddress(_, _)
CountWithAddress(rs, i) ==
    IF i > Len(rs) THEN 0
    ELSE (IF rs[i].address # "" THEN 1 ELSE 0) + CountWithAddress(rs, i + 1)

\* one {emailAddress: ...} object per recipient with an address, no None
NoNullEntries(array, rs) ==
    /\ Len(array) = CountWithAddress(rs, 1)
    /\ \A i \in 1..Len(array) : array[i] # NoneObj /\ "emailAddress" \in DOMAIN array[i]

\* C19 as stated: the four recipient arrays of the payload hold one object
\* per recipient with a non-empty address and no None entry.
C19_PayloadArraysSkipNulls ==
    (call.op = "to_api_data" /\ call.ret.t = "dict") =>
        /\ NoNullEntries(call.ret.v.toRecipients, call.pre.to.recipients)
        /\ NoNullEntries(call.ret.v.ccRecipients, call.pre.cc.recipients)
        /\ NoNullEntries(call.ret.v.bccRecipients, call.pre.bcc.recipients)
        /\ NoNullEntries(call.ret.v.replyTo, call.pre.reply_to.recipients)

\* C20: when a remote operation ends in failure (the connection call
\* throws or the status is not the expected one), object_id, is_draft,
\* is_read, folder_id and categories are what they were before the call.
C20_FailureLeavesLocalState ==
    (call.op \in RemoteOps /\ call.reqs # <<>> /\ RemoteFailure)
    => LocalState(msg) = LocalState(call.pre)

C20_Witness ==
    /\ call.op = "mark_as_read"
    /\ call.reqs # <<>>
    /\ ~call.out.throws
    /\ call.out.status = 201
    /\ call.pre.is_read = PyFalse
    /\ msg.is_read = PyFalse

\* a send call that made no connection call
SendWithoutRequest == call.op = "send" => call.reqs = <<>>

\* C21: the persisted-and-sent state (object_id set, is_draft false) is
\* absorbing: no step leaves it; and once a send() has received a 202,
\* every later send() on the same instance makes no connection call, so at
\* most one send() receives a 202.
C21_SentIsAbsorbing ==
    /\ [][IsPersistedNotDraft(msg) => IsPersistedNotDraft(msg')]_vars
    /\ []((call.op = "send" /\ call.ret = RetTrue)
            => [](call = Idle => []SendWithoutRequest))

C21_Witness ==
    /\ call.op = "send"
    /\ call.pre.object_id = "sent_message"
    /\ ~call.pre.is_draft
    /\ call.reqs = <<>>
    /\ call.ret = RetError("RuntimeError")
    /\ msg = call.pre

=============================================================================
